---- MODULE Spec2Model ----
(***************************************************************************)
(* A model of the coding-agent session of taccaya/ts-coding-agent:         *)
(*   src/main.ts    the session loop (main)                                *)
(*   src/parser.ts  parseAndExecuteTool: clean, find the tool, parse, run  *)
(*   src/tools.ts   the six tool handlers and askForUserApproval           *)
(*                                                                         *)
(* Text is modelled at two levels.  Operator input, paths and parameter    *)
(* values are sequences of one-character strings, so that toLowerCase,     *)
(* trim and includes are computed.  A model response is a sequence of      *)
(* markup tokens (opening tag, closing tag, self-closing tag, text, code   *)
(* fence), so that the regular expressions of the parser and the XML       *)
(* parse are computed on it.                                               *)
(***************************************************************************)
EXTENDS Integers, Sequences, FiniteSets, TLC

(***************************************************************************)
(* Character strings                                                       *)
(***************************************************************************)

\* String.prototype.toLowerCase, character by character
LowerChar(c) ==
  CASE c = "Y" -> "y"
    [] c = "N" -> "n"
    [] c = "E" -> "e"
    [] c = "S" -> "s"
    [] c = "A" -> "a"
    [] OTHER -> c

ToLowerCase(s) == [i \in 1..Len(s) |-> LowerChar(s[i])]

\* the characters \s matches
IsSpace(c) == c \in {" ", "\n", "\t"}

RECURSIVE TrimLeft(_)
TrimLeft(s) ==
  IF s = <<>> THEN s
  ELSE IF IsSpace(Head(s)) THEN TrimLeft(Tail(s)) ELSE s

RECURSIVE TrimRight(_)
TrimRight(s) ==
  IF s = <<>> THEN s
  ELSE IF IsSpace(s[Len(s)]) THEN TrimRight(SubSeq(s, 1, Len(s) - 1)) ELSE s

\* String.prototype.trim
Trim(s) == TrimRight(TrimLeft(s))

\* String.prototype.includes
Includes(s, sub) ==
  \E i \in 1..(Len(s) - Len(sub) + 1) : SubSeq(s, i, i + Len(sub) - 1) = sub

AllSpace(s) == \A i \in 1..Len(s) : IsSpace(s[i])

DotDot == <<".", ".">>

(***************************************************************************)
(* Markup tokens of a model response                                       *)
(***************************************************************************)

Open(n)  == [k |-> "open",  n |-> n,  v |-> <<>>]
Close(n) == [k |-> "close", n |-> n,  v |-> <<>>]
Self(n)  == [k |-> "self",  n |-> n,  v |-> <<>>]
Text(v)  == [k |-> "text",  n |-> "", v |-> v]
\* three backquotes followed by the language word n ("" when there is none)
Fence(n) == [k |-> "fence", n |-> n,  v |-> <<>>]

\* the tool names of tools.ts
ToolType ==
  [ListFile |-> "list_file", ReadFile |-> "read_file", WriteFile |-> "write_file",
   AskQuestion |-> "ask_question", ExecuteCommand |-> "execute_command",
   Complete |-> "complete"]

ToolNames == {ToolType.ListFile, ToolType.ReadFile, ToolType.WriteFile,
              ToolType.AskQuestion, ToolType.ExecuteCommand, ToolType.Complete}

\* element names written in lower case letters and underscores only
LowerNames ==
  ToolNames \cup {"unknown_tool", "path", "content", "question", "command",
                  "requires_approval", "result", "recursive", "xml", ""}

\* key => key.toLowerCase() on an element name
LowerName(n) ==
  CASE n = "READ_FILE"       -> "read_file"
    [] n = "Write_File"      -> "write_file"
    [] n = "COMPLETE"        -> "complete"
    [] n = "Execute_Command" -> "execute_command"
    [] n = "UNKNOWN_TOOL"    -> "unknown_tool"
    [] n = "PATH"            -> "path"
    [] n = "Content"         -> "content"
    [] n = "RESULT"          -> "result"
    [] n = "COMMAND"         -> "command"
    [] n = "XML"             -> "xml"
    [] OTHER -> n

\* [a-z_]+ matches the whole name
IsLowerIdent(n) == n /= "" /\ n \in LowerNames

(***************************************************************************)
(* parser.ts: cleaning the response                                        *)
(***************************************************************************)

IsBlankTok(t) == t.k = "text" /\ AllSpace(t.v)

\* .trim() on the response: leading white space
RECURSIVE TokTrimLeft(_)
TokTrimLeft(r) ==
  IF r = <<>> THEN r
  ELSE IF Head(r).k /= "text" THEN r
  ELSE IF AllSpace(Head(r).v) THEN TokTrimLeft(Tail(r))
  ELSE <<Text(TrimLeft(Head(r).v))>> \o Tail(r)

\* .trim() on the response: trailing white space
RECURSIVE TokTrimRight(_)
TokTrimRight(r) ==
  IF r = <<>> THEN r
  ELSE LET last == r[Len(r)]
           init == SubSeq(r, 1, Len(r) - 1)
       IN IF last.k /= "text" THEN r
          ELSE IF AllSpace(last.v) THEN TokTrimRight(init)
          ELSE init \o <<Text(TrimRight(last.v))>>

TokTrim(r) == TokTrimRight(TokTrimLeft(r))

\* .replace(/^fence(?:xml)?\s*/i, ''); the fences of the model carry xml, XML or nothing
StripFenceStart(r) ==
  IF r /= <<>> /\ Head(r).k = "fence" /\ LowerName(Head(r).n) \in {"", "xml"}
  THEN TokTrimLeft(Tail(r))
  ELSE r

\* .replace(/fence\s*$/, '')
StripFenceEnd(r) ==
  LET t == TokTrimRight(r)
  IN IF t /= <<>> /\ t[Len(t)].k = "fence" /\ t[Len(t)].n = ""
     THEN SubSeq(t, 1, Len(t) - 1)
     ELSE r

CleanResponse(llmResponse) ==
  TokTrim(StripFenceEnd(StripFenceStart(TokTrim(llmResponse))))

\* a regular expression that also takes a self-closing element for a tool tag
toolNameRegexSelfClosing(t) == t.k \in {"open", "self"} /\ IsLowerIdent(t.n)

\* toolNameRegex = /<([a-z_]+)>/ matches at this token
toolNameRegex(t) == t.k = "open" /\ IsLowerIdent(t.n)

NoMatch == ""

\* cleanedResponse.match(toolNameRegex): the name of the first match, NoMatch when none
FirstMatch(r) ==
  IF \E i \in 1..Len(r) : toolNameRegex(r[i])
  THEN r[CHOOSE i \in 1..Len(r) :
            /\ toolNameRegex(r[i])
            /\ \A j \in 1..(i - 1) : ~toolNameRegex(r[j])].n
  ELSE NoMatch

(***************************************************************************)
(* parser.ts: parseStringPromise of xml2js with explicitArray: false,      *)
(* trim: true and lower-casing tagNameProcessors.  JavaScript values are   *)
(* records: undefined, a string, an object with its children, an array.    *)
(***************************************************************************)

JsUndef     == [t |-> "undef", s |-> <<>>, kids |-> <<>>]
JsStr(s)    == [t |-> "str",   s |-> s,    kids |-> <<>>]
JsObj(kids) == [t |-> "obj",   s |-> <<>>, kids |-> kids]
JsArr(kids) == [t |-> "arr",   s |-> <<>>, kids |-> kids]

Kid(name, val) == [name |-> name, val |-> val]

HasKid(kids, name) == \E i \in 1..Len(kids) : kids[i].name = name

KidIndex(kids, name) == CHOOSE i \in 1..Len(kids) : kids[i].name = name

\* assignOrPush: a repeated child becomes an array
AssignOrPush(kids, name, val) ==
  IF ~HasKid(kids, name) THEN Append(kids, Kid(name, val))
  ELSE LET i   == KidIndex(kids, name)
           old == kids[i].val
           arr == IF old.t = "arr"
                  THEN JsArr(Append(old.kids, Kid("#", val)))
                  ELSE JsArr(<<Kid("#", old), Kid("#", val)>>)
       IN [kids EXCEPT ![i] = Kid(name, arr)]

Frame(raw) == [raw |-> raw, name |-> LowerName(raw), text |-> <<>>, kids |-> <<>>]

\* onclosetag: the value an element becomes
ElementValue(f) ==
  IF AllSpace(f.text)
  THEN IF f.kids = <<>> THEN JsStr(f.text) ELSE JsObj(f.kids)
  ELSE IF f.kids = <<>> THEN JsStr(Trim(f.text))
       ELSE JsObj(<<Kid("_", JsStr(Trim(f.text)))>> \o f.kids)

SaxStart == [stack |-> <<>>, done |-> FALSE, err |-> FALSE, root |-> "", val |-> JsUndef]

SaxCloseTop(st) ==
  LET n   == Len(st.stack)
      f   == st.stack[n]
      val == ElementValue(f)
      up  == [st.stack[n - 1] EXCEPT !.kids = AssignOrPush(@, f.name, val)]
  IN IF n = 1
     THEN [st EXCEPT !.stack = <<>>, !.done = TRUE, !.root = f.name, !.val = val]
     ELSE [st EXCEPT !.stack = SubSeq(st.stack, 1, n - 2) \o <<up>>]

SaxPush(st, raw) == [st EXCEPT !.stack = Append(@, Frame(raw))]

\* a code fence inside an element is character data; "^" stands for a backquote
FenceChars == <<"^", "^", "^">>

\* one token through the strict sax parser
SaxStep(st, t) ==
  LET n == Len(st.stack)
  IN CASE t.k = "open"  -> SaxPush(st, t.n)
       [] t.k = "self"  -> SaxCloseTop(SaxPush(st, t.n))
       [] t.k = "close" ->
            IF n = 0 \/ st.stack[n].raw /= t.n
            THEN [st EXCEPT !.err = TRUE]
            ELSE SaxCloseTop(st)
       [] OTHER ->
            IF n = 0
            THEN IF IsBlankTok(t) THEN st ELSE [st EXCEPT !.err = TRUE]
            ELSE [st EXCEPT !.stack[n].text =
                    @ \o (IF t.k = "text" THEN t.v ELSE FenceChars)]

\* the parse ends at the first error or when the root element closes
RECURSIVE SaxWalk(_, _, _)
SaxWalk(r, i, st) ==
  IF st.err \/ st.done THEN st
  ELSE IF i > Len(r) THEN [st EXCEPT !.err = TRUE]
  ELSE SaxWalk(r, i + 1, SaxStep(st, r[i]))

parseStringPromise(r) == SaxWalk(r, 1, SaxStart)

\* parsedXml[toolType] || {}
ParamsOf(parsedXml, toolType) ==
  LET v == IF parsedXml.root = toolType THEN parsedXml.val ELSE JsUndef
  IN IF v.t = "undef" \/ (v.t = "str" /\ v.s = <<>>) THEN JsObj(<<>>) ELSE v

\* params.name
Prop(params, name) ==
  IF params.t = "obj" /\ HasKid(params.kids, name)
  THEN params.kids[KidIndex(params.kids, name)].val
  ELSE JsUndef

(***************************************************************************)
(* tools.ts: results and the handlers.  A message is its fixed text; the   *)
(* interpolated part (file content, output, error text) is left out,       *)
(* except for a tool name.                                                 *)
(***************************************************************************)

Msg(text, arg) == [text |-> text, arg |-> arg]

Succ(text) == [success |-> TRUE,  message |-> Msg(text, "")]
Fail(text) == [success |-> FALSE, message |-> Msg(text, "")]

TraversalMsg       == "Invalid path: Path traversal detected."
WriteCancelledMsg  == "Write operation cancelled by user."
ExecCancelledMsg   == "Command execution cancelled by user."
EmptyCleanedMsg    == "Cleaned response is empty."
NoToolTagMsg       == "No valid tool tag found in the cleaned response."
ProcessingErrorMsg == "Error processing tool response: "
UnknownToolMsg     == "Unknown tool type: "

\* what the file system or the shell does with a request
IoOutcomes == {"ok", "fail", "mkdir_fail"}

\* the answer.toLowerCase() === 'y' of askForUserApproval, without the lower-casing
askForUserApprovalExact(answer) == answer = <<"y">>

\* askForUserApproval, once rl.question has returned the operator's line
askForUserApproval(answer) == ToLowerCase(answer) = <<"y">>

\* a traversal check that looks at the start of the path only
PathTraversalPrefix(p) ==
  /\ p.t = "str"
  /\ Len(p.s) >= 2
  /\ SubSeq(p.s, 1, 2) = DotDot

\* params.path.includes('..') on a string or on an array (a repeated element)
PathTraversal(p) ==
  CASE p.t = "str" -> Includes(p.s, DotDot)
    [] p.t = "arr" -> \E i \in 1..Len(p.kids) : p.kids[i].val = JsStr(DotDot)
    [] OTHER -> FALSE

Outcome(response, effects) == [response |-> response, effects |-> effects]

\* listFile: params.path || '.', params.recursive?.toLowerCase(), readdir
listFile(params, io) ==
  LET path      == Prop(params, "path")
      recursive == Prop(params, "recursive")
  IN IF recursive.t \in {"obj", "arr"} \/ path.t \in {"obj", "arr"}
     THEN Outcome(Fail("Failed to list directory: "), {})
     ELSE IF io = "ok"
          THEN Outcome(Succ("Directory listing:"), {"fs.readdir"})
          ELSE Outcome(Fail("Failed to list directory: "), {"fs.readdir"})

\* readFile: a path that is no string has no includes or is refused by fs.readFile
readFile(params, io) ==
  LET path == Prop(params, "path")
  IN IF path.t \in {"undef", "obj"}
     THEN Outcome(Fail("Failed to read file: "), {})
     ELSE IF PathTraversal(path)
     THEN Outcome(Fail(TraversalMsg), {})
     ELSE IF path.t = "arr"
     THEN Outcome(Fail("Failed to read file: "), {})
     ELSE IF io = "ok"
          THEN Outcome(Succ("file content"), {"fs.readFile"})
          ELSE Outcome(Fail("Failed to read file: "), {"fs.readFile"})

\* a writeFile that asks for approval before it looks at its parameters
writeFileBeforeAsksFirst(params) == Succ("prompt")

\* writeFile up to the approval prompt: "prompt", or the result returned before it
writeFileBefore(params) ==
  LET path    == Prop(params, "path")
      content == Prop(params, "content")
  IN IF path.t \in {"undef", "obj"}
     THEN Fail("Failed to write file: ")
     ELSE IF PathTraversal(path)
     THEN Fail(TraversalMsg)
     ELSE IF content.t /= "str"
     THEN Fail("Failed to write file: ")
     ELSE Succ("prompt")

\* a write that goes on although the operator said no
CancelledNever(isApproved) == FALSE

\* if (!isApproved) return ... cancelled by user
Cancelled(isApproved) == ~isApproved

\* writeFile after the approval prompt
writeFileAfter(params, isApproved, io) ==
  LET path == Prop(params, "path")
  IN IF Cancelled(isApproved)
     THEN Outcome(Fail(WriteCancelledMsg), {})
     ELSE IF path.t /= "str"
     THEN Outcome(Fail("Failed to write file: "), {})
     ELSE IF io = "mkdir_fail"
     THEN Outcome(Fail("Failed to write file: "), {"fs.mkdir"})
     ELSE IF io = "ok"
          THEN Outcome(Succ("Successfully wrote to file"), {"fs.mkdir", "fs.writeFile"})
          ELSE Outcome(Fail("Failed to write file: "), {"fs.mkdir", "fs.writeFile"})

\* executeCommand after the approval prompt; exec refuses a command that is no string
executeCommandAfter(params, isApproved, io) ==
  LET command == Prop(params, "command")
  IN IF Cancelled(isApproved)
     THEN Outcome(Fail(ExecCancelledMsg), {})
     ELSE IF command.t /= "str"
     THEN Outcome(Fail("Failed to execute command: "), {})
     ELSE IF io = "ok"
          THEN Outcome(Succ("Command executed successfully."), {"exec"})
          ELSE Outcome(Fail("Failed to execute command: "), {"exec"})

\* askQuestion once the operator has answered
askQuestion(params) == Outcome(Succ("User answer: "), {})

\* complete
complete(params) == Outcome(Succ("Task completed: "), {})

(***************************************************************************)
(* The responses the model transport may return, and the operator's lines  *)
(***************************************************************************)

\* the largest number of sibling action blocks in one response
MaxBlocks == 2

El(name, v) == <<Open(name), Text(v), Close(name)>>

Block(tag, inner) == <<Open(tag)>> \o inner \o <<Close(tag)>>

PathA      == <<"a">>
PathUp     == <<".", ".", "/", "e">>
PathInner  == <<"a", "/", ".", ".">>
ContentC   == <<"c">>
CommandL   == <<"l", "s">>
QuestionQ  == <<"q">>
ResultD    == <<"d">>
FalseWord  == <<"f", "a", "l", "s", "e">>
Prose      == <<"h", "i">>
NewLine    == <<"\n">>

\* one well-formed block in lower case
PlainBlocks ==
  { Block("list_file", <<>>),
    Block("list_file", El("path", PathA)),
    Block("read_file", <<>>),
    Block("read_file", El("path", PathA)),
    Block("read_file", El("path", PathUp)),
    Block("read_file", El("path", PathInner)),
    Block("write_file", <<>>),
    Block("write_file", El("path", PathA) \o El("content", ContentC)),
    Block("write_file", El("path", PathUp) \o El("content", ContentC)),
    Block("write_file", El("path", PathA)),
    Block("write_file", El("content", ContentC)),
    Block("ask_question", <<>>),
    Block("ask_question", El("question", QuestionQ)),
    Block("execute_command", <<>>),
    Block("execute_command", El("command", CommandL)),
    Block("execute_command", El("command", CommandL) \o El("requires_approval", FalseWord)),
    Block("complete", <<>>),
    Block("complete", El("result", ResultD)),
    Block("unknown_tool", <<>>) }

\* one well-formed block with upper case letters in its element names
CaseBlocks ==
  { Block("READ_FILE", El("path", PathA)),
    Block("read_file", El("PATH", PathUp)),
    Block("Write_File", El("path", PathA) \o El("Content", ContentC)),
    Block("Execute_Command", El("COMMAND", CommandL)),
    Block("COMPLETE", El("RESULT", ResultD)),
    Block("UNKNOWN_TOOL", <<>>) }

SelfClosing == { <<Self("unknown_tool")>>, <<Self("complete")>> }

\* a block inside a code fence
Fenced(b, lang) == <<Fence(lang), Text(NewLine)>> \o b \o <<Text(NewLine), Fence("")>>

FencedBlocks ==
  { Fenced(Block("write_file", El("path", PathA) \o El("content", ContentC)), "xml"),
    Fenced(Block("complete", El("result", ResultD)), "XML"),
    Fenced(Block("read_file", El("path", PathUp)), "") }

\* no element at all
NoTagResponses ==
  { <<Text(Prose)>>, <<Text(<<" ">>)>>, <<Fence("")>>,
    <<Fence("xml"), Text(NewLine), Text(Prose), Text(NewLine), Fence("")>> }

BaseBlocks ==
  { Block("read_file", El("path", PathA)),
    Block("execute_command", El("command", CommandL)),
    Block("complete", El("result", ResultD)) }

RECURSIVE Flatten(_)
Flatten(ss) == IF ss = <<>> THEN <<>> ELSE Head(ss) \o Flatten(Tail(ss))

\* several sibling blocks
MultiBlocks ==
  UNION { { Flatten(f) : f \in [1..n -> BaseBlocks] } : n \in 2..MaxBlocks }

\* markup that is not one document
BrokenResponses ==
  { <<Open("read_file")>> \o El("path", PathA),
    <<Open("read_file"), Close("list_file")>>,
    <<Text(Prose)>> \o Block("complete", El("result", ResultD)),
    Block("complete", El("result", ResultD)) \o <<Text(Prose)>>,
    Block("complete", <<Text(ResultD)>>),
    Block("read_file", El("path", DotDot) \o El("path", PathA)),
    Block("read_file", Block("path", El("content", ContentC))) }

Responses ==
  PlainBlocks \cup CaseBlocks \cup SelfClosing \cup FencedBlocks \cup NoTagResponses
    \cup MultiBlocks \cup BrokenResponses

\* the lines the operator may type at a prompt
Answers ==
  { <<"y">>, <<"Y">>, <<" ", "y">>, <<"y", " ">>, <<"y", "e", "s">>, <<"n">>, <<>> }

\* candidate.finishReason of an empty response; "none" when there is no candidate
FinishReasons == {"SAFETY", "RECITATION", "OTHER", "STOP", "MAX_TOKENS", "none"}

(***************************************************************************)
(* main.ts: the session                                                    *)
(***************************************************************************)

VARIABLES
  pc,             \* where main is: AwaitingTask, LoopTop, Calling, Prompting,
                  \*   PostLoop, Finally, Exited
  turns,          \* let turns
  prevTurns,      \* turns before the last turns++
  isComplete,     \* let isComplete
  messageToSend,  \* let messageToSend
  modelCalls,     \* chat.sendMessage calls issued so far
  outcome,        \* how the last model call ended
  resp,           \* assistantResponseText of this turn
  exec,           \* what parseAndExecuteTool did with it
  toolResult,     \* what parseAndExecuteTool returned
  terminal,       \* the line printed after the loop
  rlClosed        \* rl.close() was called

vars == <<pc, turns, prevTurns, isComplete, messageToSend, modelCalls, outcome,
          resp, exec, toolResult, terminal, rlClosed>>

maxTurns == 15

Null == "(null)"

NoOutcome == [kind |-> "none", detail |-> ""]

NoExec ==
  [toolType |-> Null, params |-> JsUndef, handler |-> Null, handlerCalls |-> 0,
   gatePrompts |-> 0, questionPrompts |-> 0, gateAnswer |-> <<>>,
   gateResult |-> "none", effects |-> {}, fault |-> "none"]

NoResult ==
  [returned |-> FALSE, response |-> Fail(""), toolType |-> Null, isComplete |-> FALSE]

\* { response, toolType, isComplete } as parseAndExecuteTool returns it
Ret(response, toolType, completed) ==
  [returned |-> TRUE, response |-> response, toolType |-> toolType,
   isComplete |-> completed]

NullMessage  == [prefix |-> Null, status |-> "", body |-> Msg("", "")]
TaskMessage  == [prefix |-> "task", status |-> "", body |-> Msg("", "")]
EmptyRetryMessage ==
  [prefix |-> "SYSTEM", status |-> "",
   body |-> Msg("Received empty response from model. Please check previous steps and try again, outputting a valid XML tool.", "")]
SystemErrorMessage ==
  [prefix |-> "SYSTEM Error", status |-> "", body |-> Msg("An error occurred: ", "")]

\* the message built from a tool result: prefix, Success or Failure, message
ResultMessage(ret) ==
  [prefix |-> IF ret.toolType /= Null THEN ret.toolType ELSE "Execution",
   status |-> IF ret.response.success THEN "Success" ELSE "Failure",
   body   |-> ret.response.message]

\* a loop that allows one more turn
LoopConditionOffByOne(done, t, msg) == ~done /\ t <= maxTurns /\ msg /= NullMessage

\* while (!isComplete && turns < maxTurns && messageToSend !== null)
LoopCondition(done, t, msg) == ~done /\ t < maxTurns /\ msg /= NullMessage

\* the report after the loop
TerminalReport(t, done) ==
  IF t >= maxTurns THEN "Exhausted"
  ELSE IF done THEN "Completed"
  ELSE "Aborted"

\* a test that stops on every finish reason but STOP
IsPolicyReasonNotStop(fr) == fr /= "STOP"

\* finishReason === 'SAFETY' || ... 'RECITATION' || ... 'OTHER'
IsPolicyReason(fr) == fr \in {"SAFETY", "RECITATION", "OTHER"}

Init ==
  /\ pc = "AwaitingTask"
  /\ turns = 0
  /\ prevTurns = 0
  /\ isComplete = FALSE
  /\ messageToSend = NullMessage
  /\ modelCalls = 0
  /\ outcome = NoOutcome
  /\ resp = <<>>
  /\ exec = NoExec
  /\ toolResult = NoResult
  /\ terminal = "none"
  /\ rlClosed = FALSE

\* const userTask = await rl.question('Task: ')
ReadTask ==
  /\ pc = "AwaitingTask"
  /\ pc' = "LoopTop"
  /\ messageToSend' = TaskMessage
  /\ UNCHANGED <<turns, prevTurns, isComplete, modelCalls, outcome, resp, exec,
                 toolResult, terminal, rlClosed>>

\* rl.question rejects: the fault leaves the try block
TaskFault ==
  /\ pc = "AwaitingTask"
  /\ pc' = "Finally"
  /\ UNCHANGED <<turns, prevTurns, isComplete, messageToSend, modelCalls, outcome,
                 resp, exec, toolResult, terminal, rlClosed>>

\* the loop test holds: turns++ and chat.sendMessage(messageToSend)
SendMessage ==
  /\ pc = "LoopTop"
  /\ LoopCondition(isComplete, turns, messageToSend)
  /\ turns' = turns + 1
  /\ prevTurns' = turns
  /\ modelCalls' = modelCalls + 1
  /\ pc' = "Calling"
  /\ outcome' = NoOutcome
  /\ resp' = <<>>
  /\ exec' = NoExec
  /\ toolResult' = NoResult
  /\ UNCHANGED <<isComplete, messageToSend, terminal, rlClosed>>

\* the loop test fails
ExitLoop ==
  /\ pc = "LoopTop"
  /\ ~LoopCondition(isComplete, turns, messageToSend)
  /\ pc' = "PostLoop"
  /\ UNCHANGED <<turns, prevTurns, isComplete, messageToSend, modelCalls, outcome,
                 resp, exec, toolResult, terminal, rlClosed>>

\* main.ts 147-160: the result becomes the next message
Finish(execNew, ret) ==
  /\ exec' = execNew
  /\ toolResult' = ret
  /\ isComplete' = ret.isComplete
  /\ messageToSend' = IF ~ret.isComplete THEN ResultMessage(ret) ELSE NullMessage
  /\ pc' = "LoopTop"

\* a prompt that is not awaited: main goes on while the handler waits
PromptNotAwaited(execNew) ==
  /\ exec' = execNew
  /\ pc' = "LoopTop"
  /\ UNCHANGED <<toolResult, isComplete, messageToSend>>

\* a handler that asks the operator: main waits in rl.question
Prompt(execNew) ==
  /\ exec' = execNew
  /\ pc' = "Prompting"
  /\ UNCHANGED <<toolResult, isComplete, messageToSend>>

\* the handler has run: what it did, and whether the file system or the shell failed
Ran(e, out, io) ==
  [e EXCEPT !.effects = out.effects,
            !.fault = IF out.effects /= {} /\ io /= "ok" THEN "io" ELSE "none"]

\* the switch of parseAndExecuteTool
Dispatch(toolType, params) ==
  LET called == [NoExec EXCEPT !.toolType = toolType, !.params = params,
                               !.handler = toolType, !.handlerCalls = 1]
  IN CASE toolType = ToolType.ListFile ->
            \E io \in IoOutcomes :
              LET out == listFile(params, io)
              IN Finish(Ran(called, out, io),
                        Ret(out.response, toolType, FALSE))
       [] toolType = ToolType.ReadFile ->
            \E io \in IoOutcomes :
              LET out == readFile(params, io)
              IN Finish(Ran(called, out, io),
                        Ret(out.response, toolType, FALSE))
       [] toolType = ToolType.WriteFile ->
            LET before == writeFileBefore(params)
            IN IF before.success
               THEN Prompt([called EXCEPT !.gatePrompts = 1])
               ELSE Finish(called, Ret(before, toolType, FALSE))
       [] toolType = ToolType.AskQuestion ->
            Prompt([called EXCEPT !.questionPrompts = 1])
       [] toolType = ToolType.ExecuteCommand ->
            Prompt([called EXCEPT !.gatePrompts = 1])
       [] toolType = ToolType.Complete ->
            Finish(called, Ret(complete(params).response, toolType, TRUE))
       [] OTHER ->
            Finish([NoExec EXCEPT !.toolType = toolType, !.params = params],
                   Ret([success |-> FALSE, message |-> Msg(UnknownToolMsg, toolType)],
                       toolType, FALSE))

\* the model answers with text: parseAndExecuteTool up to its first prompt
ModelText(r) ==
  /\ pc = "Calling"
  /\ outcome' = [kind |-> "text", detail |-> ""]
  /\ resp' = r
  /\ LET cleanedResponse == CleanResponse(r)
         match           == FirstMatch(cleanedResponse)
         parsedXml       == parseStringPromise(cleanedResponse)
     IN IF cleanedResponse = <<>>
        THEN Finish(NoExec, Ret(Fail(EmptyCleanedMsg), Null, FALSE))
        ELSE IF match = NoMatch
        THEN Finish(NoExec, Ret(Fail(NoToolTagMsg), Null, FALSE))
        ELSE IF parsedXml.err
        THEN Finish([NoExec EXCEPT !.toolType = match, !.fault = "markup"],
                    Ret(Fail(ProcessingErrorMsg), Null, FALSE))
        ELSE Dispatch(match, ParamsOf(parsedXml, match))
  /\ UNCHANGED <<turns, prevTurns, modelCalls, terminal, rlClosed>>

\* the model answers with no text
ModelEmpty(fr) ==
  /\ pc = "Calling"
  /\ outcome' = [kind |-> "empty", detail |-> fr]
  /\ IF IsPolicyReason(fr)
     THEN /\ pc' = "PostLoop"
          /\ UNCHANGED messageToSend
     ELSE /\ pc' = "LoopTop"
          /\ messageToSend' = EmptyRetryMessage
  /\ UNCHANGED <<turns, prevTurns, isComplete, modelCalls, resp, exec, toolResult,
                 terminal, rlClosed>>

\* a loop without the inner catch: a fault of the model call leaves main
ModelFaultEscapes(safety) ==
  /\ pc = "Calling"
  /\ outcome' = [kind |-> "fault", detail |-> IF safety THEN "SAFETY" ELSE "other"]
  /\ pc' = "Finally"
  /\ UNCHANGED <<turns, prevTurns, isComplete, messageToSend, modelCalls, resp, exec,
                 toolResult, terminal, rlClosed>>

\* a catch block that starts the count again after a fault
ModelFaultResetsTurns(safety) ==
  /\ pc = "Calling"
  /\ outcome' = [kind |-> "fault", detail |-> IF safety THEN "SAFETY" ELSE "other"]
  /\ IF safety
     THEN /\ isComplete' = TRUE
          /\ UNCHANGED <<messageToSend, turns>>
     ELSE /\ messageToSend' = SystemErrorMessage
          /\ turns' = 0
          /\ UNCHANGED isComplete
  /\ pc' = "LoopTop"
  /\ UNCHANGED <<prevTurns, modelCalls, resp, exec, toolResult, terminal, rlClosed>>

\* chat.sendMessage or response.text() throws; safety: the text includes "SAFETY"
ModelFault(safety) ==
  /\ pc = "Calling"
  /\ outcome' = [kind |-> "fault", detail |-> IF safety THEN "SAFETY" ELSE "other"]
  /\ IF safety
     THEN /\ isComplete' = TRUE
          /\ UNCHANGED messageToSend
     ELSE /\ messageToSend' = SystemErrorMessage
          /\ UNCHANGED isComplete
  /\ pc' = "LoopTop"
  /\ UNCHANGED <<turns, prevTurns, modelCalls, resp, exec, toolResult, terminal,
                 rlClosed>>

\* the operator types a line at the prompt of the running handler
OperatorAnswers(answer, io) ==
  /\ pc = "Prompting"
  /\ LET isApproved == askForUserApproval(answer)
         gated      == [exec EXCEPT !.gateAnswer = answer,
                                    !.gateResult = IF isApproved THEN "true" ELSE "false"]
     IN CASE exec.handler = ToolType.WriteFile ->
               LET out == writeFileAfter(exec.params, isApproved, io)
               IN Finish(Ran(gated, out, io),
                         Ret(out.response, exec.handler, FALSE))
          [] exec.handler = ToolType.ExecuteCommand ->
               LET out == executeCommandAfter(exec.params, isApproved, io)
               IN Finish(Ran(gated, out, io),
                         Ret(out.response, exec.handler, FALSE))
          [] OTHER ->
               Finish(exec, Ret(askQuestion(exec.params).response, exec.handler, FALSE))
  /\ UNCHANGED <<turns, prevTurns, modelCalls, outcome, resp, terminal, rlClosed>>

\* rl.question rejects inside a handler: the handler's catch returns a failure
OperatorFault ==
  /\ pc = "Prompting"
  /\ LET text == CASE exec.handler = ToolType.WriteFile -> "Failed to write file: "
                   [] exec.handler = ToolType.ExecuteCommand -> "Failed to execute command: "
                   [] OTHER -> "Failed to ask question: "
     IN Finish([exec EXCEPT !.fault = "prompt"], Ret(Fail(text), exec.handler, FALSE))
  /\ UNCHANGED <<turns, prevTurns, modelCalls, outcome, resp, terminal, rlClosed>>

\* main.ts 177-183
Report ==
  /\ pc = "PostLoop"
  /\ terminal' = TerminalReport(turns, isComplete)
  /\ pc' = "Finally"
  /\ UNCHANGED <<turns, prevTurns, isComplete, messageToSend, modelCalls, outcome,
                 resp, exec, toolResult, rlClosed>>

\* a finally block that does not close the interface
CloseReadlineForgotten ==
  /\ pc = "Finally"
  /\ pc' = "Exited"
  /\ UNCHANGED <<turns, prevTurns, isComplete, messageToSend, modelCalls, outcome,
                 resp, exec, toolResult, terminal, rlClosed>>

\* finally { rl.close() }
CloseReadline ==
  /\ pc = "Finally"
  /\ rlClosed' = TRUE
  /\ pc' = "Exited"
  /\ UNCHANGED <<turns, prevTurns, isComplete, messageToSend, modelCalls, outcome,
                 resp, exec, toolResult, terminal>>

Next ==
  \/ ReadTask
  \/ TaskFault
  \/ SendMessage
  \/ ExitLoop
  \/ \E r \in Responses : ModelText(r)
  \/ \E fr \in FinishReasons : ModelEmpty(fr)
  \/ \E safety \in BOOLEAN : ModelFault(safety)
  \/ \E answer \in Answers, io \in IoOutcomes : OperatorAnswers(answer, io)
  \/ OperatorFault
  \/ Report
  \/ CloseReadline

Spec == Init /\ [][Next]_vars

\* once the loop is left, main runs on without waiting for anyone: the report and
\* the finally block are reached
FairSpec ==
  /\ Spec
  /\ WF_vars(ExitLoop)
  /\ WF_vars(Report)
  /\ WF_vars(CloseReadline)

(***************************************************************************)
(* Properties                                                              *)
(***************************************************************************)

SideEffects == {"fs.mkdir", "fs.writeFile", "exec"}

Gated == {ToolType.WriteFile, ToolType.ExecuteCommand}

\* C1: a directory creation, a file write or a shell execution has happened in an
\* invocation only if the approval gate was consulted in that same invocation and
\* returned true; while the gate is still waiting nothing has happened; whatever
\* requires_approval says.
ApprovalBeforeSideEffect ==
  /\ (exec.effects \cap SideEffects /= {}) =>
       /\ exec.handler \in Gated
       /\ exec.gatePrompts = 1
       /\ exec.gateResult = "true"
  /\ (pc = "Prompting") => exec.effects = {}

ApprovedCommandRan ==
  /\ exec.handler = ToolType.ExecuteCommand
  /\ Prop(exec.params, "requires_approval") = JsStr(FalseWord)
  /\ exec.gateResult = "true"
  /\ "exec" \in exec.effects

CompleteDispatched == toolResult.returned /\ toolResult.isComplete

\* C2: never more than maxTurns model calls; and a session that ends with the budget
\* used up and no complete action dispatched reports Exhausted.
TurnBudget ==
  /\ modelCalls <= maxTurns
  /\ (terminal /= "none" /\ turns >= maxTurns /\ ~CompleteDispatched)
       => terminal = "Exhausted"

ExhaustedAtBudget ==
  /\ terminal = "Exhausted"
  /\ modelCalls = maxTurns
  /\ ~CompleteDispatched

\* C3: when a response decodes to the complete action, no further model call is made
\* and the session reports Completed.
CompleteEndsCompleted ==
  CompleteDispatched =>
    /\ ~LoopCondition(isComplete, turns, messageToSend)
    /\ (terminal /= "none" => terminal = "Completed")

PolicyBlocked ==
  \/ outcome.kind = "empty" /\ IsPolicyReason(outcome.detail)
  \/ outcome.kind = "fault" /\ outcome.detail = "SAFETY"

\* C4: after a policy block no further model call is made and the session reports
\* Aborted.
PolicyBlockAborts ==
  PolicyBlocked =>
    /\ pc = "LoopTop" => ~LoopCondition(isComplete, turns, messageToSend)
    /\ (terminal /= "none" => terminal = "Aborted")

HasDotDotPath(params) ==
  /\ Prop(params, "path").t = "str"
  /\ Includes(Prop(params, "path").s, DotDot)

\* C5: a read_file or write_file invocation whose path contains .. has returned the
\* traversal rejection, and has read, created and written nothing and asked nothing.
TraversalRejected ==
  (exec.handler \in {ToolType.ReadFile, ToolType.WriteFile} /\ HasDotDotPath(exec.params))
    => /\ toolResult.returned
       /\ toolResult.response = Fail(TraversalMsg)
       /\ exec.effects = {}
       /\ exec.gatePrompts = 0

TraversalSeen ==
  /\ exec.handler = ToolType.WriteFile
  /\ Prop(exec.params, "path") = JsStr(PathUp)
  /\ toolResult.response = Fail(TraversalMsg)

\* the responses that are one well-formed block, with or without a code fence
WellFormedSingle == PlainBlocks \cup CaseBlocks \cup FencedBlocks

Markup(r) == SelectSeq(r, LAMBDA t : t.k /= "fence" /\ ~IsBlankTok(t))

BlockTag(r) == LowerName(Markup(r)[1].n)

\* the children of a flat block: name and text, names in lower case
BlockChildren(r) ==
  LET b == Markup(r)
  IN [i \in 1..((Len(b) - 2) \div 3) |->
        Kid(LowerName(b[3 * i - 1].n), JsStr(b[3 * i].v))]

\* C6: a response that is one well-formed block decodes to the block's tag and the
\* block's children, element names compared without regard to case, and the handler
\* of that name is the one that runs.
DecodesItsBlock ==
  (outcome.kind = "text" /\ resp \in WellFormedSingle) =>
    /\ exec.toolType = BlockTag(resp)
    /\ exec.params = JsObj(BlockChildren(resp))
    /\ BlockTag(resp) \in ToolNames => exec.handler = BlockTag(resp)

\* the number of top-level elements named after a registered action
RECURSIVE CountBlocks(_, _, _)
CountBlocks(r, i, depth) ==
  IF i > Len(r) THEN 0
  ELSE LET t    == r[i]
           here == IF depth = 0 /\ t.k \in {"open", "self"} /\ LowerName(t.n) \in ToolNames
                   THEN 1 ELSE 0
           next == CASE t.k = "open" -> depth + 1
                     [] t.k = "close" /\ depth > 0 -> depth - 1
                     [] OTHER -> depth
       IN here + CountBlocks(r, i + 1, next)

\* C7: at most one handler runs for a response; and for a response with no action
\* block or with more than one, no handler runs and the result is a failure.
OneBlockOrNothing ==
  /\ exec.handlerCalls <= 1
  /\ (outcome.kind = "text" /\ CountBlocks(resp, 1, 0) /= 1) =>
       /\ exec.handlerCalls = 0
       /\ toolResult.returned
       /\ ~toolResult.response.success

UnknownToolResponses == { <<Self("unknown_tool")>>, Block("unknown_tool", <<>>) }

UnknownToolFailure == [success |-> FALSE, message |-> Msg(UnknownToolMsg, "unknown_tool")]

\* C8: for a single element named unknown_tool, self-closing or not, no handler runs,
\* the result is the unknown-action failure, the next message is
\* [unknown_tool Result] Failure: ..., turns went up by one and the loop goes on.
UnknownToolReported ==
  (outcome.kind = "text" /\ resp \in UnknownToolResponses) =>
    /\ exec.handlerCalls = 0
    /\ toolResult = Ret(UnknownToolFailure, "unknown_tool", FALSE)
    /\ messageToSend = [prefix |-> "unknown_tool", status |-> "Failure",
                        body |-> UnknownToolFailure.message]
    /\ turns = prevTurns + 1
    /\ turns < maxTurns => (pc = "LoopTop" /\ LoopCondition(isComplete, turns, messageToSend))

\* an opening tag whose name is lower case letters and underscores
IsActionTag(t) == t.k = "open" /\ t.n \in (LowerNames \ {""})

NoActionTag(r) == \A i \in 1..Len(r) : ~IsActionTag(r[i])

\* the response failed to decode with this text, no handler ran, the failure is the
\* next message and, with budget left, the loop goes on
DecodeFailureRetried(text) ==
  /\ exec.handlerCalls = 0
  /\ toolResult = Ret(Fail(text), Null, FALSE)
  /\ messageToSend = [prefix |-> "Execution", status |-> "Failure", body |-> Msg(text, "")]
  /\ turns < maxTurns => (pc = "LoopTop" /\ LoopCondition(isComplete, turns, messageToSend))

\* C9 as claimed: every non-empty response without an action tag fails with
\* NoActionFound and the session goes on with the failure as the next message.
NoActionFoundAlways ==
  (outcome.kind = "text" /\ NoActionTag(resp)) => DecodeFailureRetried(NoToolTagMsg)

\* C9 as amended: a response without an action tag that is not empty after cleaning
\* fails with NoActionFound; one that is empty after cleaning fails with the
\* empty-response message; either way no handler runs and the session goes on with
\* the failure as the next message.
NoActionFoundRetries ==
  (outcome.kind = "text" /\ NoActionTag(resp)) =>
    IF CleanResponse(resp) /= <<>>
    THEN DecodeFailureRetried(NoToolTagMsg)
    ELSE DecodeFailureRetried(EmptyCleanedMsg)

NoActionFoundSeen ==
  /\ outcome.kind = "text"
  /\ resp = <<Text(Prose)>>
  /\ toolResult = Ret(Fail(NoToolTagMsg), Null, FALSE)
  /\ pc = "LoopTop"

GateAnswered == exec.gateResult /= "none"

\* C10 as claimed: the gate returns true exactly when the trimmed, lower-cased line
\* is y, and prompts once.
GateTrimsAndLowers ==
  /\ exec.gatePrompts <= 1
  /\ GateAnswered =>
       /\ exec.gatePrompts = 1
       /\ (exec.gateResult = "true") <=> (ToLowerCase(Trim(exec.gateAnswer)) = <<"y">>)

\* C10 as amended: the gate returns true exactly when the line is y or Y, with no
\* trimming; every other line, the empty one, yes and a y next to a blank included,
\* is a rejection; and the gate prompts once.
GateAcceptsOnlyY ==
  /\ exec.gatePrompts <= 1
  /\ GateAnswered =>
       /\ exec.gatePrompts = 1
       /\ (exec.gateResult = "true") <=> (exec.gateAnswer \in {<<"y">>, <<"Y">>})

GateAcceptedUpperY ==
  /\ exec.gateResult = "true"
  /\ exec.gateAnswer = <<"Y">>
  /\ exec.gatePrompts = 1

\* the loop was not ended by this turn: only the turn budget can stop it
SessionGoesOn ==
  /\ ~isComplete
  /\ messageToSend /= NullMessage
  /\ LoopCondition(isComplete, turns, messageToSend) <=> turns < maxTurns
  /\ pc \in {"LoopTop", "Calling"} \/ turns >= maxTurns
  /\ terminal \in {"none", "Exhausted"}

CancelledMsgOf(handler) ==
  IF handler = ToolType.WriteFile THEN WriteCancelledMsg ELSE ExecCancelledMsg

\* C11: when the operator rejects a write_file or execute_command, the result is a
\* failure with the cancelled-by-user message and nothing was done, the failure is
\* the next message and the session goes on; and a result of these actions that does
\* not come from a rejection never carries that message.
RejectionReported ==
  (exec.handler \in Gated /\ toolResult.returned) =>
    /\ (exec.gateResult = "false") =>
         /\ toolResult.response = Fail(CancelledMsgOf(exec.handler))
         /\ exec.effects = {}
         /\ messageToSend = [prefix |-> exec.handler, status |-> "Failure",
                             body |-> Msg(CancelledMsgOf(exec.handler), "")]
         /\ SessionGoesOn
    /\ (exec.gateResult /= "false") =>
         toolResult.response.message.text \notin {WriteCancelledMsg, ExecCancelledMsg}

RejectionSeen ==
  /\ exec.handler = ToolType.WriteFile
  /\ exec.gateResult = "false"
  /\ exec.gateAnswer = <<"n">>
  /\ toolResult.response = Fail(WriteCancelledMsg)
  /\ pc = "LoopTop"
  /\ turns < maxTurns

\* the invocation lacks a parameter its handler needs
MissingParameter ==
  \/ exec.handler = ToolType.ReadFile /\ Prop(exec.params, "path").t = "undef"
  \/ exec.handler = ToolType.WriteFile /\ Prop(exec.params, "path").t = "undef"
  \/ exec.handler = ToolType.WriteFile /\ Prop(exec.params, "content").t = "undef"
  \/ exec.handler = ToolType.ExecuteCommand /\ Prop(exec.params, "command").t = "undef"
  \/ exec.handler = ToolType.AskQuestion /\ Prop(exec.params, "question").t = "undef"

\* C12: a read_file, write_file, execute_command or ask_question invocation that
\* lacks its required parameter returns a failure, which is the next message, and
\* the session goes on.
MissingParameterFails ==
  (MissingParameter /\ toolResult.returned) =>
    /\ ~toolResult.response.success
    /\ messageToSend.prefix = exec.handler
    /\ messageToSend.status = "Failure"
    /\ SessionGoesOn

OperatorPrompted == pc \in {"AwaitingTask", "Prompting"}

\* C13: once the session has left the loop, through a report of Completed, Exhausted
\* or Aborted or through a fault that escapes the session body, the operator channel
\* is eventually closed; it stays closed, and no prompt is issued while it is closed.
ChannelClosedAtEnd ==
  /\ (pc \in {"PostLoop", "Finally"}) ~> rlClosed
  /\ [](rlClosed => ~OperatorPrompted)
  /\ [][rlClosed => rlClosed']_vars

ClosedAfterAbort ==
  /\ rlClosed
  /\ terminal = "Aborted"
  /\ pc = "Exited"

\* markup that the XML parse refuses
MalformedResponses ==
  { <<Open("read_file")>> \o El("path", PathA),
    <<Open("read_file"), Close("list_file")>>,
    <<Text(Prose)>> \o Block("complete", El("result", ResultD)) }

NonSafetyFault == outcome.kind = "fault" /\ outcome.detail = "other"

Reported == {"Completed", "Exhausted", "Aborted"}

\* C14: a recoverable error does not leave the loop.  A file system or shell fault
\* and a failed operator prompt inside a handler become a failure of that action,
\* malformed markup becomes the processing-error failure, a non-safety fault of the
\* model call becomes the system error message; each is the next message and the
\* session goes on; and a session that was running ends only with a report of
\* Completed, Exhausted or Aborted.
ErrorsStayInside ==
  /\ (exec.fault \in {"io", "prompt"}) =>
       /\ toolResult.returned
       /\ ~toolResult.response.success
       /\ messageToSend = [prefix |-> exec.handler, status |-> "Failure",
                           body |-> toolResult.response.message]
       /\ SessionGoesOn
  /\ (outcome.kind = "text" /\ resp \in MalformedResponses) =>
       /\ exec.handlerCalls = 0
       /\ toolResult = Ret(Fail(ProcessingErrorMsg), Null, FALSE)
       /\ messageToSend = [prefix |-> "Execution", status |-> "Failure",
                           body |-> Msg(ProcessingErrorMsg, "")]
       /\ SessionGoesOn
  /\ NonSafetyFault =>
       /\ messageToSend = SystemErrorMessage
       /\ SessionGoesOn
  /\ (turns > 0 /\ pc \in {"Finally", "Exited"}) => terminal \in Reported

ShellFaultSeen ==
  /\ exec.handler = ToolType.ExecuteCommand
  /\ exec.fault = "io"
  /\ "exec" \in exec.effects
  /\ pc = "LoopTop"

\* C16: a non-safety fault of the model call makes the system error message the next
\* message and the session goes on; turns always equals the number of model calls
\* issued, and the last call raised it by exactly one.
TurnsCountCalls ==
  /\ turns = modelCalls
  /\ turns > 0 => turns = prevTurns + 1
  /\ NonSafetyFault =>
       /\ messageToSend = SystemErrorMessage
       /\ exec.handlerCalls = 0
       /\ LoopCondition(isComplete, turns, messageToSend) <=> turns < maxTurns

FaultThenNextCall ==
  /\ pc = "Calling"
  /\ messageToSend = SystemErrorMessage
  /\ turns = 3
  /\ modelCalls = 3

\* C17: an empty response whose finish reason is not SAFETY, RECITATION or OTHER
\* dispatches nothing, makes the retry message the next message and the session
\* goes on.
EmptyResponseRetried ==
  (outcome.kind = "empty" /\ outcome.detail \notin {"SAFETY", "RECITATION", "OTHER"}) =>
    /\ exec = NoExec
    /\ ~toolResult.returned
    /\ messageToSend = EmptyRetryMessage
    /\ SessionGoesOn

EmptyResponseSeen ==
  /\ outcome = [kind |-> "empty", detail |-> "MAX_TOKENS"]
  /\ messageToSend = EmptyRetryMessage
  /\ pc = "LoopTop"
  /\ turns < maxTurns

ModelCallOutstanding == modelCalls > 0 /\ outcome.kind = "none"

HandlerOutstanding == exec.handlerCalls > 0 /\ ~toolResult.returned

PromptOutstanding ==
  exec.gatePrompts + exec.questionPrompts > 0 /\ ~toolResult.returned

\* C18: a model call and a handler are never outstanding together; a handler runs at
\* most once per response and asks the operator at most once, inside its run; and a
\* model call is issued only when the one before has been answered and no handler
\* or prompt of it is still outstanding.
Sequential ==
  /\ [](~(ModelCallOutstanding /\ HandlerOutstanding))
  /\ [](exec.handlerCalls <= 1 /\ exec.gatePrompts + exec.questionPrompts <= 1)
  /\ [](PromptOutstanding => HandlerOutstanding)
  /\ [][modelCalls' /= modelCalls =>
          /\ ~ModelCallOutstanding
          /\ ~HandlerOutstanding
          /\ ~PromptOutstanding]_vars

CallAfterPrompt ==
  /\ pc = "Calling"
  /\ turns = 2
  /\ messageToSend.prefix = ToolType.AskQuestion
  /\ messageToSend.status = "Success"

\* C19: a write_file invocation whose path contains .., or that lacks path or
\* content, has failed without the approval gate being consulted and without any
\* prompt to the operator.
ValidationBeforeApproval ==
  (/\ exec.handler = ToolType.WriteFile
   /\ \/ HasDotDotPath(exec.params)
      \/ Prop(exec.params, "path").t = "undef"
      \/ Prop(exec.params, "content").t = "undef") =>
    /\ pc /= "Prompting"
    /\ exec.gatePrompts = 0
    /\ exec.questionPrompts = 0
    /\ exec.gateResult = "none"
    /\ toolResult.returned
    /\ ~toolResult.response.success

ContentMissingSeen ==
  /\ exec.handler = ToolType.WriteFile
  /\ Prop(exec.params, "path") = JsStr(PathA)
  /\ Prop(exec.params, "content").t = "undef"
  /\ exec.gatePrompts = 0
  /\ toolResult.response = Fail("Failed to write file: ")

====
